---- MODULE Spec2Model ----
(***************************************************************************)
(* State-machine model of the two tuning scripts                           *)
(*   examples/nlp/language_modeling/tuning/megatron_gpt_peft_eval.py       *)
(*   examples/nlp/language_modeling/tuning/megatron_retro_lora_tuning.py   *)
(* Each script's main() is a straight-line program; pc names the next      *)
(* block of main() to run and every action is one block of the source.     *)
(*                                                                         *)
(* Representation of Python values:                                        *)
(*   str            a tuple of one-character strings                       *)
(*   None (text)    NoneText, a tuple no character string equals           *)
(*   None (scalar)  the string "None"                                      *)
(*   DictConfig     a function from key names to values; a key that is     *)
(*                  absent is outside DOMAIN                               *)
(*   object not yet bound   <<>> (records) or 0 (object ids)               *)
(***************************************************************************)
EXTENDS Integers, Sequences, FiniteSets, TLC

VARIABLES
  script,                  \* which main() runs: "eval" or "retro"
  hydra_cfg,               \* the config hydra_runner composed and called main with
  test_set,                \* number of records in the test jsonl file
  pc,                      \* next block of main()
  cfg,                     \* the runtime config object (main's argument)
  plugins,                 \* main's local list of precision plugins
  trainer,                 \* the Trainer main constructed
  peft_model_cfg,          \* eval: the persisted config object that was loaded
  frozen_model_cfg,        \* retro: the persisted config object that was loaded
  save_restore_connector,  \* the connector handed to restore_from
  model,                   \* the restored / constructed model
  request_dl,              \* eval: the DataLoader over the test set
  dataset,                 \* eval: the GPTSFTDataset of the inline request
  payloads,                \* eval: the weight payloads torch.load created
  model_weights,           \* eval: id of the payload model_weights is bound to
  examples,                \* eval: every record _process_example built
  processed_example,       \* eval: id of the record processed_example is bound to
  batches,                 \* eval: every batch collate_fn built
  batch_input,             \* eval: id of the batch batch_input is bound to
  input_tuple,             \* eval: id of the batch input_tuple was built from
  gen_calls,               \* eval: every model.generate call, in call order
  output,                  \* eval: number of the generate call output is bound to
  dbg,                     \* eval: position in the inline request block
  response,                \* eval: what trainer.predict returned
  outfile,                 \* eval: the text of the file at inference.outfile_path
  stdout,                  \* what the script printed, in order
  raised                   \* the exception that left main(), None while there is none

envVars     == <<script, hydra_cfg, test_set>>
setupVars   == <<plugins, trainer>>
cfgVars     == <<cfg, peft_model_cfg, frozen_model_cfg>>
restoreVars == <<save_restore_connector, model, request_dl>>
dbgVars     == <<dataset, payloads, model_weights, examples, processed_example,
                 batches, batch_input, input_tuple, gen_calls, output, dbg>>
outVars     == <<response, outfile, stdout, raised>>
vars        == <<envVars, pc, setupVars, cfgVars, restoreVars, dbgVars, outVars>>

-----------------------------------------------------------------------------
(* Python values *)

None == "None"
NoneText == <<"None">>

\* bool(x) of a str-or-None x: None and "" are falsy.
Truthy(t) == t # NoneText /\ t # <<>>

\* s.endswith(suffix)
EndsWith(s, suffix) ==
  /\ Len(s) >= Len(suffix)
  /\ SubSeq(s, Len(s) - Len(suffix) + 1, Len(s)) = suffix

DotNemo == <<".", "n", "e", "m", "o">>

\* DictConfig.get(key, default)
Get(c, k, default) == IF k \in DOMAIN c THEN c[k] ELSE default

\* c[k] = v on a DictConfig opened with open_dict: the key is added when absent.
SetKey(c, k, v) == [x \in DOMAIN c \cup {k} |-> IF x = k THEN v ELSE c[x]]

\* c.pop(k)
PopKey(c, k) == [x \in DOMAIN c \ {k} |-> c[x]]

-----------------------------------------------------------------------------
(* The files the scripts read *)

BaseNemo    == <<"b", ".", "n", "e", "m", "o">>
PeftNemo    == <<"p", ".", "n", "e", "m", "o">>
CkptDir     == <<"c", "k">>
NemoDir     == <<".", "n", "e", "m", "o", "/", "d">>
HparamsYaml == <<"h", ".", "y">>
CustomCkpt  == <<"w", ".", "c">>
OutPath     == <<"o", ".", "j">>
DefaultCkptName ==
  <<"m", "o", "d", "e", "l", "_", "w", "e", "i", "g", "h", "t", "s",
    ".", "c", "k", "p", "t">>

\* os.path.isdir(path)
IsDir(path) == path \in {CkptDir, NemoDir}

TrainDs == [add_bos |-> FALSE, add_eos |-> TRUE, add_sep |-> FALSE]

\* The config persisted in the base model's .nemo file.
BaseModelCfg ==
  [precision |-> "32",
   data |-> [test_ds |-> [add_bos |-> FALSE, tokens_to_generate |-> 7,
                          global_batch_size |-> 4],
             train_ds |-> TrainDs],
   activations_checkpoint_granularity |-> "selective",
   activations_checkpoint_method |-> "uniform"]

\* The config persisted in the adapter's .nemo file.
PeftNemoCfg ==
  [precision |-> "32",
   data |-> [test_ds |-> [add_bos |-> TRUE, tokens_to_generate |-> 9,
                          global_batch_size |-> 8],
             train_ds |-> TrainDs],
   activations_checkpoint_granularity |-> "full",
   activations_checkpoint_method |-> "block",
   use_flash_attention |-> TRUE,
   seq_len_interpolation_factor |-> "2",
   peft |-> [peft_scheme |-> "lora"]]

\* The dict under the cfg key of the adapter's hparams.yaml.
HparamsCfg ==
  [precision |-> "32",
   data |-> [test_ds |-> [add_bos |-> TRUE, tokens_to_generate |-> 11,
                          global_batch_size |-> 8],
             train_ds |-> TrainDs],
   activations_checkpoint_granularity |-> "full",
   activations_checkpoint_method |-> "uniform",
   use_flash_attention |-> FALSE,
   peft |-> [peft_scheme |-> "ptuning"]]

\* What is stored at each path the eval script reads a config from.
Artifact(path) ==
  CASE path = BaseNemo -> BaseModelCfg
    [] path = PeftNemo -> PeftNemoCfg
    [] path = HparamsYaml -> [cfg |-> HparamsCfg]

\* MegatronGPTPEFTModel.restore_from(restore_path, return_config=True)
PeftRestoreConfig(path) == Artifact(path)

\* MegatronGPTSFTModel.restore_from(restore_path, return_config=True)
SftRestoreConfig(path) == Artifact(path)

\* OmegaConf.create(OmegaConf.to_container(OmegaConf.load(path).cfg))
HparamsLoad(path) == Artifact(path).cfg

-----------------------------------------------------------------------------
(* Precision plugins and Trainer, both scripts *)

\* plugins as main() builds it from the runtime config.
PrecisionPlugins(c, megatron_amp_o2, with_distributed_adam) ==
  LET p == c.trainer.precision
      scaler == IF p = "16" THEN "GradScaler" ELSE None
      half == IF p \in {"16", "bf16"}
              THEN << [plugin |-> IF megatron_amp_o2 /\ ~with_distributed_adam
                                  THEN "MegatronHalfPrecisionPlugin"
                                  ELSE "PipelineMixedPrecisionPlugin",
                       precision |-> p, scaler |-> scaler] >>
              ELSE << >>
      env == IF Get(c, "cluster_type", None) = "BCP"
             THEN << [plugin |-> "TorchElasticEnvironment",
                      precision |-> None, scaler |-> None] >>
             ELSE << >>
  IN half \o env

\* Trainer(strategy=NLPDDPStrategy(), devices=1, accelerator="gpu", num_nodes=1,
\*         precision=16, logger=False, enable_checkpointing=False)
EvalTrainer(c, pl) ==
  [precision |-> "16", plugins |-> << >>, devices |-> 1, num_nodes |-> 1,
   global_rank |-> 0]

\* Trainer(plugins=plugins, strategy=strategy, **cfg.trainer)
RetroTrainer(c, pl) ==
  [precision |-> c.trainer.precision, plugins |-> pl, devices |-> 1,
   num_nodes |-> 1, global_rank |-> 0]


-----------------------------------------------------------------------------
(* megatron_gpt_peft_eval.py: the runtime configs main() is called with *)

\* One composed runtime config of the eval script.
EvalCfg(prec, pp, hp, cn, tds, ufa, slif, act, inf) ==
  [trainer |-> [precision |-> prec],
   model |-> [restore_from_path |-> BaseNemo,
              peft |-> [restore_from_path |-> pp,
                        restore_from_hparams_path |-> hp,
                        restore_from_ckpt_name |-> cn],
              data |-> [test_ds |-> tds],
              use_flash_attention |-> ufa,
              seq_len_interpolation_factor |-> slif,
              activations_checkpoint_granularity |-> act[1],
              activations_checkpoint_method |-> act[2],
              gradient_as_bucket_view |-> FALSE,
              pipeline_model_parallel_size |-> 1],
   inference |-> inf]

Precisions == {"16", "bf16", "32"}
PeftPaths == {NoneText, << >>, PeftNemo, CkptDir, NemoDir}
HparamsPaths == {NoneText, HparamsYaml}
CkptNames == {NoneText, << >>, CustomCkpt}
ActCheckpoint == {<<None, None>>, <<"selective", "uniform">>}
SeqLenFactors == {None, "4"}

TestDs(b, n, g) == [add_bos |-> b, tokens_to_generate |-> n, global_batch_size |-> g]

Inference(path, logprob, verbose) ==
  [add_BOS |-> FALSE, tokens_to_generate |-> 0, outfile_path |-> path,
   compute_logprob |-> logprob, verbose |-> verbose]

\* The runtime configs of the configuration pipeline: every source of the
\* adapter config and every overridable key, one output mode.
EvalConfigs ==
  { EvalCfg(prec, pp, hp, cn, TestDs(b, n, 1), ufa, slif, act,
            Inference(OutPath, FALSE, FALSE)) :
      prec \in Precisions, pp \in PeftPaths, hp \in HparamsPaths,
      cn \in CkptNames, b \in BOOLEAN, n \in {0, 30}, ufa \in BOOLEAN,
      slif \in SeqLenFactors, act \in ActCheckpoint }

-----------------------------------------------------------------------------
(* megatron_gpt_peft_eval.py: configuration source, merge, restore *)

\* PeftConfigSource with the else branch falling back to the base model's
\* config instead of raising.
PeftConfigSource_FallbackToBase(c) ==
  LET p == c.model.peft.restore_from_path
      hp == c.model.peft.restore_from_hparams_path
  IN IF Truthy(p) /\ EndsWith(p, DotNemo)
     THEN [raised |-> FALSE, cfg |-> PeftRestoreConfig(p)]
     ELSE IF Truthy(p) /\ Truthy(hp)
          THEN [raised |-> FALSE, cfg |-> HparamsLoad(hp)]
          ELSE [raised |-> FALSE, cfg |-> SftRestoreConfig(c.model.restore_from_path)]

\* PeftConfigSource with the hparams file read whenever its path is set, with
\* or without an adapter path.
PeftConfigSource_HparamsWithoutAdapter(c) ==
  LET p == c.model.peft.restore_from_path
      hp == c.model.peft.restore_from_hparams_path
  IN IF Truthy(p) /\ EndsWith(p, DotNemo)
     THEN [raised |-> FALSE, cfg |-> PeftRestoreConfig(p)]
     ELSE IF Truthy(hp)
          THEN [raised |-> FALSE, cfg |-> HparamsLoad(hp)]
          ELSE IF Truthy(p)
               THEN [raised |-> TRUE, cfg |-> << >>]
               ELSE [raised |-> FALSE,
                     cfg |-> SftRestoreConfig(c.model.restore_from_path)]

\* The if / elif / else that picks where the adapter config comes from.
\* raised: the RuntimeError branch was taken.
PeftConfigSource(c) ==
  LET p == c.model.peft.restore_from_path
      hp == c.model.peft.restore_from_hparams_path
  IN IF Truthy(p)
     THEN IF EndsWith(p, DotNemo)
          THEN [raised |-> FALSE, cfg |-> PeftRestoreConfig(p)]
          ELSE IF Truthy(hp)
               THEN [raised |-> FALSE, cfg |-> HparamsLoad(hp)]
               ELSE [raised |-> TRUE, cfg |-> << >>]
     ELSE [raised |-> FALSE, cfg |-> SftRestoreConfig(c.model.restore_from_path)]

\* MergeEvalConfig with use_flash_attention taken from the runtime config
\* whatever the persisted config holds.
MergeEvalConfig_UnguardedFlash(p, c) ==
  LET p1 == SetKey(p, "precision", c.trainer.precision)
      p2 == SetKey(p1, "data", SetKey(p1.data, "test_ds", c.model.data.test_ds))
      p3 == SetKey(p2, "activations_checkpoint_granularity", None)
      p4 == SetKey(p3, "activations_checkpoint_method", None)
      p5 == SetKey(p4, "use_flash_attention", c.model.use_flash_attention)
  IN IF Get(c.model, "seq_len_interpolation_factor", None) # None
     THEN SetKey(p5, "seq_len_interpolation_factor",
                 c.model.seq_len_interpolation_factor)
     ELSE p5

\* The body of "with open_dict(peft_model_cfg)": the persisted config p after
\* the assignments from the runtime config c.
MergeEvalConfig(p, c) ==
  LET p1 == SetKey(p, "precision", c.trainer.precision)
      p2 == SetKey(p1, "data", SetKey(p1.data, "test_ds", c.model.data.test_ds))
      p3 == SetKey(p2, "activations_checkpoint_granularity", None)
      p4 == SetKey(p3, "activations_checkpoint_method", None)
      p5 == IF Get(p4, "use_flash_attention", FALSE)
            THEN SetKey(p4, "use_flash_attention", c.model.use_flash_attention)
            ELSE p4
      p6 == IF Get(c.model, "seq_len_interpolation_factor", None) # None
            THEN SetKey(p5, "seq_len_interpolation_factor",
                        c.model.seq_len_interpolation_factor)
            ELSE p5
  IN p6

\* BackPropagate with only add_BOS carried back.
BackPropagate_OnlyBOS(c, p) ==
  SetKey(c, "inference", SetKey(c.inference, "add_BOS", p.data.test_ds.add_bos))

\* BackPropagate with cfg.inference replaced by the two fields.
BackPropagate_ReplacesInference(c, p) ==
  SetKey(c, "inference",
         [add_BOS |-> p.data.test_ds.add_bos,
          tokens_to_generate |-> p.data.test_ds.tokens_to_generate])

\* The body of "with open_dict(cfg)": the runtime config c after the two
\* assignments from the merged config p.
BackPropagate(c, p) ==
  SetKey(c, "inference",
         SetKey(SetKey(c.inference, "add_BOS", p.data.test_ds.add_bos),
                "tokens_to_generate", p.data.test_ds.tokens_to_generate))

\* SelectConnector with restore_from_ckpt_name passed on as given, no default.
SelectConnector_NoDefaultName(c) ==
  LET p == c.model.peft.restore_from_path
  IN IF Truthy(p)
     THEN IF EndsWith(p, DotNemo)
          THEN [class |-> "PEFTSaveRestoreConnector",
                args |-> [peft_model_nemo_path |-> p,
                          peft_model_ckpt_path |-> NoneText]]
          ELSE [class |-> "PEFTSaveRestoreConnector",
                args |-> [peft_model_nemo_path |-> NoneText,
                          peft_model_ckpt_path |-> p,
                          peft_model_ckpt_name |-> c.model.peft.restore_from_ckpt_name]]
     ELSE [class |-> "NLPSaveRestoreConnector", args |-> << >>]

\* The connector main() constructs, as the class and the keyword arguments
\* it is constructed with.
SelectConnector(c) ==
  LET p == c.model.peft.restore_from_path
      cn == c.model.peft.restore_from_ckpt_name
      ckpt_name == IF Truthy(cn) THEN cn ELSE DefaultCkptName
  IN IF Truthy(p)
     THEN IF EndsWith(p, DotNemo)
          THEN [class |-> "PEFTSaveRestoreConnector",
                args |-> [peft_model_nemo_path |-> p,
                          peft_model_ckpt_path |-> NoneText]]
          ELSE [class |-> "PEFTSaveRestoreConnector",
                args |-> [peft_model_nemo_path |-> NoneText,
                          peft_model_ckpt_path |-> p,
                          peft_model_ckpt_name |-> ckpt_name]]
     ELSE [class |-> "NLPSaveRestoreConnector", args |-> << >>]

\* if os.path.isdir(restore_from_path): connector.model_extracted_dir = ...
WithExtractedDir(conn, path) ==
  IF IsDir(path) THEN SetKey(conn, "model_extracted_dir", path) ELSE conn

\* MegatronGPTSFTModel.restore_from(...), model.freeze(), model.state_dict()
RestoredModel(c, p, conn, tr) ==
  [class |-> "MegatronGPTSFTModel",
   restore_path |-> c.model.restore_from_path,
   override_config_path |-> p,
   save_restore_connector |-> conn,
   trainer |-> tr,
   frozen |-> TRUE,
   inference_config |-> << >>]

NoFile == <<"<no file>">>

InitCommon ==
  /\ pc = "plugins"
  /\ cfg = hydra_cfg
  /\ plugins = << >>
  /\ trainer = << >>
  /\ peft_model_cfg = << >>
  /\ frozen_model_cfg = << >>
  /\ save_restore_connector = << >>
  /\ model = << >>
  /\ request_dl = << >>
  /\ dataset = << >>
  /\ payloads = << >>
  /\ model_weights = 0
  /\ examples = << >>
  /\ processed_example = 0
  /\ batches = << >>
  /\ batch_input = 0
  /\ input_tuple = 0
  /\ gen_calls = << >>
  /\ output = 0
  /\ dbg = 1
  /\ response = << >>
  /\ outfile = NoFile
  /\ stdout = << >>
  /\ raised = None

InitEval ==
  /\ script = "eval"
  /\ hydra_cfg \in EvalConfigs
  /\ test_set = 1
  /\ InitCommon

\* lines 80-106
EvalBuildPlugins ==
  /\ script = "eval" /\ pc = "plugins"
  /\ plugins' = PrecisionPlugins(cfg, Get(cfg.model, "megatron_amp_O2", FALSE), FALSE)
  /\ pc' = "trainer"
  /\ UNCHANGED <<envVars, trainer, cfgVars, restoreVars, dbgVars, outVars>>

\* lines 109-117
EvalBuildTrainer ==
  /\ script = "eval" /\ pc = "trainer"
  /\ trainer' = EvalTrainer(cfg, plugins)
  /\ pc' = "config_source"
  /\ UNCHANGED <<envVars, plugins, cfgVars, restoreVars, dbgVars, outVars>>

\* lines 118-133
LoadPeftConfig ==
  /\ script = "eval" /\ pc = "config_source"
  /\ LET src == PeftConfigSource(cfg)
     IN IF src.raised
        THEN /\ raised' = "RuntimeError"
             /\ pc' = "failed"
             /\ UNCHANGED <<peft_model_cfg>>
        ELSE /\ peft_model_cfg' = src.cfg
             /\ pc' = "merge"
             /\ UNCHANGED <<raised>>
  /\ UNCHANGED <<envVars, setupVars, cfg, frozen_model_cfg, restoreVars, dbgVars,
                 response, outfile, stdout>>

\* lines 136-145
MergeConfig ==
  /\ script = "eval" /\ pc = "merge"
  /\ peft_model_cfg' = MergeEvalConfig(peft_model_cfg, cfg)
  /\ pc' = "back_propagate"
  /\ UNCHANGED <<envVars, setupVars, cfg, frozen_model_cfg, restoreVars, dbgVars, outVars>>

\* lines 147-151
BackPropagateInference ==
  /\ script = "eval" /\ pc = "back_propagate"
  /\ cfg' = BackPropagate(cfg, peft_model_cfg)
  /\ pc' = "connector"
  /\ UNCHANGED <<envVars, setupVars, peft_model_cfg, frozen_model_cfg, restoreVars,
                 dbgVars, outVars>>

\* lines 153-173
BuildConnector ==
  /\ script = "eval" /\ pc = "connector"
  /\ save_restore_connector' =
       WithExtractedDir(SelectConnector(cfg), cfg.model.restore_from_path)
  /\ pc' = "restore"
  /\ UNCHANGED <<envVars, setupVars, cfgVars, model, request_dl, dbgVars, outVars>>

\* lines 174-182
RestoreModel ==
  /\ script = "eval" /\ pc = "restore"
  /\ model' = RestoredModel(cfg, peft_model_cfg, save_restore_connector, trainer)
  /\ pc' = "request_dl"
  /\ UNCHANGED <<envVars, setupVars, cfgVars, save_restore_connector, request_dl,
                 dbgVars, outVars>>

\* lines 183-188
BuildRequestLoader ==
  /\ script = "eval" /\ pc = "request_dl"
  /\ request_dl' = [dataset_size |-> test_set,
                    batch_size |-> peft_model_cfg.data.test_ds.global_batch_size]
  /\ pc' = "inference_config"
  /\ UNCHANGED <<envVars, setupVars, cfgVars, save_restore_connector, model,
                 dbgVars, outVars>>

\* lines 189-190
SetInferenceConfig ==
  /\ script = "eval" /\ pc = "inference_config"
  /\ model' = SetKey(model, "inference_config", cfg.inference)
  /\ pc' = "dataset"
  /\ UNCHANGED <<envVars, setupVars, cfgVars, save_restore_connector, request_dl,
                 dbgVars, outVars>>

-----------------------------------------------------------------------------
(* megatron_gpt_peft_eval.py: the inline request block, lines 192-326 *)

\* GPTSFTDataset(...) as main() constructs it from the merged config p.
InlineDataset(p) ==
  [add_bos |-> p.data.train_ds.add_bos,
   add_eos |-> p.data.train_ds.add_eos,
   add_sep |-> p.data.train_ds.add_sep,
   tokens_to_generate |-> Get(p.data.test_ds, "tokens_to_generate", 0)]

\* The statements of lines 257-323 in source order: what each does and the
\* line it is on.
DebugProgram ==
  << [op |-> "process",  line |-> 257], [op |-> "attach",   line |-> 264],
     [op |-> "set_ttg",  line |-> 266], [op |-> "collate",  line |-> 268],
     [op |-> "collate",  line |-> 270], [op |-> "tuple",    line |-> 297],
     [op |-> "generate", line |-> 298],
     [op |-> "process",  line |-> 299], [op |-> "attach",   line |-> 300],
     [op |-> "tuple",    line |-> 301], [op |-> "generate", line |-> 302],
     [op |-> "process",  line |-> 303], [op |-> "attach",   line |-> 304],
     [op |-> "tuple",    line |-> 305], [op |-> "generate", line |-> 306],
     [op |-> "process",  line |-> 307], [op |-> "attach",   line |-> 308],
     [op |-> "tuple",    line |-> 309], [op |-> "generate", line |-> 310],
     [op |-> "process",  line |-> 311], [op |-> "attach",   line |-> 312],
     [op |-> "tuple",    line |-> 313], [op |-> "generate", line |-> 314],
     [op |-> "process",  line |-> 315], [op |-> "attach",   line |-> 316],
     [op |-> "tuple",    line |-> 317], [op |-> "generate", line |-> 318],
     [op |-> "generate", line |-> 319], [op |-> "generate", line |-> 320],
     [op |-> "generate", line |-> 321], [op |-> "generate", line |-> 322],
     [op |-> "generate", line |-> 323] >>

\* The statement the inline request block is at.
AtOp(op) ==
  /\ script = "eval" /\ pc = "inline_request"
  /\ dbg <= Len(DebugProgram)
  /\ DebugProgram[dbg].op = op

\* dataset._process_example({'input': "Once upon a time", 'output': ''})
ProcessedExample(raw) == [raw |-> raw, inference_peft_weights |-> << >>]

\* dataset.collate_fn([example]): the batch keeps, per slot, the handles of
\* its records in record order.
CollatedBatch(ids, exs) ==
  [records |-> ids,
   inference_peft_weights |->
     IF ids = << >> THEN << >>
     ELSE [slot \in DOMAIN exs[ids[1]].inference_peft_weights |->
             [i \in 1..Len(ids) |-> exs[ids[i]].inference_peft_weights[slot]]]]

\* lines 192-218
BuildDataset ==
  /\ script = "eval" /\ pc = "dataset"
  /\ dataset' = InlineDataset(peft_model_cfg)
  /\ pc' = "load_weights"
  /\ UNCHANGED <<envVars, setupVars, cfgVars, restoreVars, payloads, model_weights,
                 examples, processed_example, batches, batch_input, input_tuple,
                 gen_calls, output, dbg, outVars>>

WeightsFile == "/workspaces/software/inference-engines/model_weights.ckpt"

\* torch.load(file): a new payload object holding the file's tensors; writes
\* counts the in-place writes made to it since.
LoadedPayload(file) == [file |-> file, writes |-> 0]

\* line 250
LoadWeights ==
  /\ script = "eval" /\ pc = "load_weights"
  /\ payloads' = Append(payloads, LoadedPayload(WeightsFile))
  /\ model_weights' = Len(payloads) + 1
  /\ pc' = "inline_request"
  /\ UNCHANGED <<envVars, setupVars, cfgVars, restoreVars, dataset, examples,
                 processed_example, batches, batch_input, input_tuple, gen_calls,
                 output, dbg, outVars>>

\* processed_example = dataset._process_example({...})
ProcessExample ==
  /\ AtOp("process")
  /\ examples' = Append(examples, ProcessedExample("Once upon a time"))
  /\ processed_example' = Len(examples) + 1
  /\ dbg' = dbg + 1
  /\ UNCHANGED <<envVars, pc, setupVars, cfgVars, restoreVars, dataset, payloads,
                 model_weights, batches, batch_input, input_tuple, gen_calls,
                 output, outVars>>

\* AttachWeights with a copy of the payload attached in place of the payload.
AttachWeights_Copy ==
  /\ AtOp("attach")
  /\ payloads' = Append(payloads, payloads[model_weights])
  /\ examples' = [examples EXCEPT ![processed_example].inference_peft_weights =
                    SetKey(@, "0", Len(payloads) + 1)]
  /\ dbg' = dbg + 1
  /\ UNCHANGED <<envVars, pc, setupVars, cfgVars, restoreVars, dataset,
                 model_weights, processed_example, batches, batch_input,
                 input_tuple, gen_calls, output, outVars>>

\* processed_example["inference_peft_weights"]["0"] = model_weights
AttachWeights ==
  /\ AtOp("attach")
  /\ examples' = [examples EXCEPT ![processed_example].inference_peft_weights =
                    SetKey(@, "0", model_weights)]
  /\ dbg' = dbg + 1
  /\ UNCHANGED <<envVars, pc, setupVars, cfgVars, restoreVars, dataset, payloads,
                 model_weights, processed_example, batches, batch_input,
                 input_tuple, gen_calls, output, outVars>>

\* dataset.tokens_to_generate = 200
SetTokensToGenerate ==
  /\ AtOp("set_ttg")
  /\ dataset' = SetKey(dataset, "tokens_to_generate", 200)
  /\ dbg' = dbg + 1
  /\ UNCHANGED <<envVars, pc, setupVars, cfgVars, restoreVars, payloads,
                 model_weights, examples, processed_example, batches, batch_input,
                 input_tuple, gen_calls, output, outVars>>

\* batch_input = dataset.collate_fn([processed_example])
Collate ==
  /\ AtOp("collate")
  /\ batches' = Append(batches, CollatedBatch(<<processed_example>>, examples))
  /\ batch_input' = Len(batches) + 1
  /\ dbg' = dbg + 1
  /\ UNCHANGED <<envVars, pc, setupVars, cfgVars, restoreVars, dataset, payloads,
                 model_weights, examples, processed_example, input_tuple,
                 gen_calls, output, outVars>>

\* input_tuple = (batch_input["contexts"].cuda(), ..., batch_input["inference_peft_weights"])
BuildInputTuple ==
  /\ AtOp("tuple")
  /\ input_tuple' = batch_input
  /\ dbg' = dbg + 1
  /\ UNCHANGED <<envVars, pc, setupVars, cfgVars, restoreVars, dataset, payloads,
                 model_weights, examples, processed_example, batches, batch_input,
                 gen_calls, output, outVars>>

\* output = model.generate(input_tuple, length_params, sampling_params)
\* Each call is logged with the batch it was given and the example record
\* processed_example was bound to when it was made.
Generate ==
  /\ AtOp("generate")
  /\ gen_calls' = Append(gen_calls, [batch |-> input_tuple,
                                      example |-> processed_example,
                                      line |-> DebugProgram[dbg].line])
  /\ output' = Len(gen_calls) + 1
  /\ dbg' = dbg + 1
  /\ UNCHANGED <<envVars, pc, setupVars, cfgVars, restoreVars, dataset, payloads,
                 model_weights, examples, processed_example, batches, batch_input,
                 input_tuple, outVars>>

\* line 326: print(output)
PrintOutput ==
  /\ script = "eval" /\ pc = "inline_request"
  /\ dbg = Len(DebugProgram) + 1
  /\ stdout' = Append(stdout, [printed |-> "output", call |-> output])
  /\ pc' = "predict"
  /\ UNCHANGED <<envVars, setupVars, cfgVars, restoreVars, dbgVars, response,
                 outfile, raised>>

-----------------------------------------------------------------------------
(* megatron_gpt_peft_eval.py: predict and the output file, lines 329-354 *)

RECURSIVE Concat(_)
\* ''.join(parts)
Concat(parts) == IF Len(parts) = 0 THEN << >> ELSE Head(parts) \o Concat(Tail(parts))

RECURSIVE Join(_, _)
\* sep.join(parts)
Join(sep, parts) ==
  IF Len(parts) = 0 THEN << >>
  ELSE IF Len(parts) = 1 THEN Head(parts)
  ELSE Head(parts) \o sep \o Join(sep, Tail(parts))

Min(a, b) == IF a <= b THEN a ELSE b

\* zip(a, b, c): stops at the shortest.
Zip3(a, b, c) ==
  [i \in 1..Min(Len(a), Min(Len(b), Len(c))) |-> <<a[i], b[i], c[i]>>]

\* zip(a, b)
Zip2(a, b) == [i \in 1..Min(Len(a), Len(b)) |-> <<a[i], b[i]>>]

Digits == <<"0", "1", "2", "3", "4", "5", "6", "7", "8", "9">>

RECURSIVE IntText(_)
\* str(n) of a natural number n
IntText(n) == IF n < 10 THEN <<Digits[n + 1]>>
              ELSE IntText(n \div 10) \o <<Digits[(n % 10) + 1]>>

\* Format4f with the digits after the fourth cut off instead of rounded.
Format4f_Truncate(l) ==
  LET a == IF l < 0 THEN 0 - l ELSE l
      n == a \div 10
      frac == n % 10000
  IN (IF l < 0 THEN <<"-">> ELSE << >>)
     \o IntText(n \div 10000) \o <<".">>
     \o <<Digits[(frac \div 1000) + 1], Digits[((frac \div 100) % 10) + 1],
          Digits[((frac \div 10) % 10) + 1], Digits[(frac % 10) + 1]>>

\* f"{l:.4f}" of the log-probability l, held here in units of 10^-5: rounded
\* to 4 decimals (a tie goes to the even digit), sign kept, 4 digits written.
Format4f(l) ==
  LET a == IF l < 0 THEN 0 - l ELSE l
      q == a \div 10
      r == a % 10
      n == IF r > 5 \/ (r = 5 /\ q % 2 = 1) THEN q + 1 ELSE q
      frac == n % 10000
  IN (IF l < 0 THEN <<"-">> ELSE << >>)
     \o IntText(n \div 10000) \o <<".">>
     \o <<Digits[(frac \div 1000) + 1], Digits[((frac \div 100) % 10) + 1],
          Digits[((frac \div 10) % 10) + 1], Digits[(frac % 10) + 1]>>

\* json's escape of one character of a str (ASCII text)
EscapeChar(c) ==
  CASE c = "\"" -> <<"\\", "\"">>
    [] c = "\\" -> <<"\\", "\\">>
    [] c = "\n" -> <<"\\", "n">>
    [] OTHER -> <<c>>

\* JsonString without the escaping: the text between two quotes.
JsonString_NoEscape(s) == <<"\"">> \o s \o <<"\"">>

\* json.dumps(s) of a str s
JsonString(s) ==
  <<"\"">> \o Concat([i \in 1..Len(s) |-> EscapeChar(s[i])]) \o <<"\"">>

\* One "key": value member of an object.
JsonMember(item) == JsonString(item.key) \o <<":", " ">> \o JsonString(item.value)

\* json.dumps(d) of a dict d of str values, given as its items in order.
JsonDumps(items) ==
  <<"{">> \o Join(<<",", " ">>, [i \in 1..Len(items) |-> JsonMember(items[i])])
          \o <<"}">>

\* The order of characters that the keys of the output records are made of.
CharOrder == <<"_", "a", "b", "c", "e", "g", "h", "i", "k", "l", "n", "o", "p",
               "r", "s", "t", "w">>
CharRank(c) == CHOOSE i \in 1..Len(CharOrder) : CharOrder[i] = c

RECURSIVE StrLess(_, _)
\* a < b of two str
StrLess(a, b) ==
  IF Len(b) = 0 THEN FALSE
  ELSE IF Len(a) = 0 THEN TRUE
  ELSE IF Head(a) = Head(b) THEN StrLess(Tail(a), Tail(b))
  ELSE CharRank(Head(a)) < CharRank(Head(b))

RECURSIVE SortItems(_)
\* the items of a dict sorted by key (sort_keys=True)
SortItems(items) ==
  IF Len(items) <= 1 THEN items
  ELSE LET m == CHOOSE i \in 1..Len(items) :
                  \A j \in 1..Len(items) : ~StrLess(items[j].key, items[i].key)
           rest == [j \in 1..(Len(items) - 1) |->
                      IF j < m THEN items[j] ELSE items[j + 1]]
       IN <<items[m]>> \o SortItems(rest)

\* json.dumps(d, sort_keys=True, indent=2) of a non-empty dict of str values
JsonDumpsSortedIndent2(items) ==
  LET sorted == SortItems(items)
  IN <<"{", "\n">>
     \o Join(<<",", "\n">>,
             [i \in 1..Len(sorted) |-> <<" ", " ">> \o JsonMember(sorted[i])])
     \o <<"\n", "}">>

KeySentence == <<"s", "e", "n", "t", "e", "n", "c", "e">>
KeyTokensWithLogprobs ==
  <<"t", "o", "k", "e", "n", "s", "_", "w", "i", "t", "h", "_",
    "l", "o", "g", "p", "r", "o", "b", "s">>

\* ', '.join([f"{_t} {_l:.4f}" for _t, _l in zip(t, l)])
TokensWithLogprobs(t, l) ==
  LET z == Zip2(t, l)
  IN Join(<<",", " ">>, [i \in 1..Len(z) |-> z[i][1] \o <<" ">> \o Format4f(z[i][2])])

\* What the body of "for batch in response" writes for one batch.
BatchText(batch, inf) ==
  IF inf.compute_logprob
  THEN LET z == Zip3(batch.sentences, batch.tokens, batch.logprob)
       IN Concat([i \in 1..Len(z) |->
            IF Get(inf, "verbose", FALSE)
            THEN JsonDumpsSortedIndent2(
                   << [key |-> KeySentence, value |-> z[i][1]],
                      [key |-> KeyTokensWithLogprobs,
                       value |-> TokensWithLogprobs(z[i][2], z[i][3])] >>)
                 \o <<"\n">>
            ELSE << >>])
  ELSE Concat([i \in 1..Len(batch.sentences) |->
         JsonDumps(<< [key |-> KeySentence, value |-> batch.sentences[i]] >>)
         \o <<"\n">>])

\* The text of the file after the "with open(outfile_path, 'w')" block.
FileText(resp, inf) == Concat([b \in 1..Len(resp) |-> BatchText(resp[b], inf)])

\* What the model may generate for one test record: the sentence, its tokens
\* and their log-probabilities (in units of 10^-5).  The values that lie half
\* way between two 4-decimal numbers, 0.03125 and 0.09375, are floats.
Generations ==
  { [sentence |-> <<"a", "b">>, tokens |-> << <<"a">>, <<"b">> >>,
     logprob |-> <<0 - 3125, 0 - 9375>>],
    [sentence |-> <<"\"", "\n">>, tokens |-> << <<"\"">>, <<"\n">> >>,
     logprob |-> <<0 - 100000, 0 - 23456>>],
    [sentence |-> <<"\\">>, tokens |-> << <<"\\">> >>, logprob |-> <<0>>] }

\* The batches a DataLoader of batch size bs cuts n records into.
BatchCount(n, bs) == (n + bs - 1) \div bs
BatchSize(n, bs, b) == Min(bs, n - (b - 1) * bs)

\* trainer.predict(model, request_dl) for the generations gen, one per record.
PredictResponse(dl, gen) ==
  LET n == dl.dataset_size
      bs == dl.batch_size
      item(b, j) == gen[(b - 1) * bs + j]
  IN [b \in 1..BatchCount(n, bs) |->
       [sentences |-> [j \in 1..BatchSize(n, bs, b) |-> item(b, j).sentence],
        tokens    |-> [j \in 1..BatchSize(n, bs, b) |-> item(b, j).tokens],
        logprob   |-> [j \in 1..BatchSize(n, bs, b) |-> item(b, j).logprob]]]

\* line 329
Predict ==
  /\ script = "eval" /\ pc = "predict"
  /\ \E gen \in [1..request_dl.dataset_size -> Generations] :
        response' = PredictResponse(request_dl, gen)
  /\ pc' = "write"
  /\ UNCHANGED <<envVars, setupVars, cfgVars, restoreVars, dbgVars, outfile,
                 stdout, raised>>

Stars == [printed |-> "***************************"]

\* lines 331-354
WriteOutput ==
  /\ script = "eval" /\ pc = "write"
  /\ IF model.trainer.global_rank = 0
     THEN IF cfg.inference.outfile_path # NoneText
          THEN /\ outfile' = FileText(response, cfg.inference)
               /\ stdout' = stdout \o
                    << Stars,
                       [printed |-> "predictions saved to",
                        path |-> cfg.inference.outfile_path],
                       Stars >>
          ELSE /\ outfile' = outfile
               /\ stdout' = stdout \o
                    << Stars, [printed |-> "response", value |-> response], Stars >>
     ELSE /\ outfile' = outfile
          /\ stdout' = Append(stdout, Stars)
  /\ pc' = "done"
  /\ UNCHANGED <<envVars, setupVars, cfgVars, restoreVars, dbgVars, response, raised>>

NextEval ==
  \/ EvalBuildPlugins
  \/ EvalBuildTrainer
  \/ LoadPeftConfig
  \/ MergeConfig
  \/ BackPropagateInference
  \/ BuildConnector
  \/ RestoreModel
  \/ BuildRequestLoader
  \/ SetInferenceConfig
  \/ BuildDataset
  \/ LoadWeights
  \/ ProcessExample
  \/ AttachWeights
  \/ SetTokensToGenerate
  \/ Collate
  \/ BuildInputTuple
  \/ Generate
  \/ PrintOutput
  \/ Predict
  \/ WriteOutput

-----------------------------------------------------------------------------
(* megatron_retro_lora_tuning.py *)

RetroNemo == <<"r", ".", "n", "e", "m", "o">>
RetroDir  == <<"r", "/", "d">>

\* os.path.isdir(path) for the paths the retro script is given
RetroIsDir(path) == path = RetroDir

\* The config persisted with the frozen base model.
RetroBaseCfg ==
  [tokenizer |-> "base_tokenizer",
   data |-> "base_data",
   adapter_tuning |-> "base_adapter_tuning",
   optim |-> [name |-> "fused_adam"],
   restore_from_path |-> NoneText,
   eval |-> "base_eval",
   add_position_embedding |-> FALSE,
   micro_batch_size |-> 1,
   precision |-> "32",
   task_templates |-> "base_task_templates"]

\* MegatronFusedRetrievalLoraModel.restore_from(path, return_config=True):
\* the packaged model's config carries a shape_file entry, the extracted
\* directory's does not.
RetroRestoreConfig(path) ==
  IF path = RetroNemo THEN SetKey(RetroBaseCfg, "shape_file", "shapes.yaml")
  ELSE RetroBaseCfg

\* The keys of cfg.model every runtime config of the retro script provides.
RetroModelCommon(optim_name) ==
  [optim |-> [name |-> optim_name],
   restore_from_path |-> RetroNemo,
   eval |-> "runtime_eval",
   add_position_embedding |-> TRUE,
   micro_batch_size |-> 2,
   task_templates |-> "runtime_task_templates"]

RetroOptional ==
  [tokenizer |-> "runtime_tokenizer",
   data |-> "runtime_data",
   adapter_tuning |-> "runtime_adapter_tuning",
   megatron_amp_O2 |-> TRUE]

\* One composed runtime config of the retro script; provided is the set of
\* optional keys of cfg.model it sets.
RetroCfg(prec, path, optim_name, provided) ==
  [trainer |-> [precision |-> prec],
   restore_from_path |-> path,
   model |-> [k \in DOMAIN RetroModelCommon(optim_name) \cup provided |->
                IF k \in provided THEN RetroOptional[k]
                ELSE RetroModelCommon(optim_name)[k]]]

RetroConfigs ==
  { RetroCfg(prec, path, on, provided) :
      prec \in Precisions, path \in {RetroNemo, RetroDir},
      on \in {"fused_adam", "distributed_fused_adam"},
      provided \in SUBSET DOMAIN RetroOptional }

\* The keys lines 103-110 copy with frozen_model_cfg.k = cfg.model.k, in order.
RetroCopiedKeys ==
  <<"tokenizer", "data", "adapter_tuning", "optim", "restore_from_path", "eval",
    "add_position_embedding", "micro_batch_size">>

RECURSIVE AssignKeys(_, _, _, _)
\* frozen.k = runtime.k for each k of keys, in order.  Reading a key the
\* runtime config does not hold either raises (a struct-mode DictConfig) or
\* yields None (a DictConfig that is not in struct mode): on_missing says which.
AssignKeys(frozen, runtime, keys, on_missing) ==
  IF Len(keys) = 0 THEN [cfg |-> frozen, raised |-> FALSE]
  ELSE LET k == Head(keys)
       IN IF k \in DOMAIN runtime
          THEN AssignKeys(SetKey(frozen, k, runtime[k]), runtime, Tail(keys), on_missing)
          ELSE IF on_missing = "raise"
               THEN [cfg |-> frozen, raised |-> TRUE]
               ELSE AssignKeys(SetKey(frozen, k, None), runtime, Tail(keys), on_missing)

\* Lines 103-113: the restored config after the assignments from the runtime
\* config c and the trainer tr.
MergeRetroConfig(frozen, c, tr, on_missing) ==
  LET copied == AssignKeys(frozen, c.model, RetroCopiedKeys, on_missing)
  IN IF copied.raised THEN copied
     ELSE [cfg |-> SetKey(SetKey(copied.cfg, "precision", tr.precision),
                          "task_templates", c.model.task_templates),
           raised |-> FALSE]

\* Lines 92-93: cfg.model.precision = cfg.trainer.precision
WithModelPrecision(c) ==
  SetKey(c, "model", SetKey(c.model, "precision", c.trainer.precision))

InitRetro ==
  /\ script = "retro"
  /\ hydra_cfg \in RetroConfigs
  /\ test_set = 0
  /\ InitCommon

\* lines 64-87
RetroBuildPlugins ==
  /\ script = "retro" /\ pc = "plugins"
  /\ plugins' = PrecisionPlugins(cfg, Get(cfg.model, "megatron_amp_O2", FALSE),
                                 cfg.model.optim.name = "distributed_fused_adam")
  /\ pc' = "trainer"
  /\ UNCHANGED <<envVars, trainer, cfgVars, restoreVars, dbgVars, outVars>>

\* lines 89-90
RetroBuildTrainer ==
  /\ script = "retro" /\ pc = "trainer"
  /\ trainer' = RetroTrainer(cfg, plugins)
  /\ pc' = "model_precision"
  /\ UNCHANGED <<envVars, plugins, cfgVars, restoreVars, dbgVars, outVars>>

\* lines 92-93
SetModelPrecision ==
  /\ script = "retro" /\ pc = "model_precision"
  /\ cfg' = WithModelPrecision(cfg)
  /\ pc' = "restore_config"
  /\ UNCHANGED <<envVars, setupVars, peft_model_cfg, frozen_model_cfg, restoreVars,
                 dbgVars, outVars>>

\* lines 95-101
RetroRestore ==
  /\ script = "retro" /\ pc = "restore_config"
  /\ save_restore_connector' =
       IF RetroIsDir(cfg.restore_from_path)
       THEN [class |-> "NLPSaveRestoreConnector", args |-> << >>,
             model_extracted_dir |-> cfg.restore_from_path]
       ELSE [class |-> "NLPSaveRestoreConnector", args |-> << >>]
  /\ frozen_model_cfg' = RetroRestoreConfig(cfg.restore_from_path)
  /\ pc' = "merge"
  /\ UNCHANGED <<envVars, setupVars, cfg, peft_model_cfg, model, request_dl,
                 dbgVars, outVars>>

\* lines 103-113
MergeRetro ==
  /\ script = "retro" /\ pc = "merge"
  /\ \E on_missing \in {"raise", "none"} :
       LET merged == MergeRetroConfig(frozen_model_cfg, cfg, trainer, on_missing)
       IN /\ frozen_model_cfg' = merged.cfg
          /\ IF merged.raised
             THEN raised' = "ConfigAttributeError" /\ pc' = "failed"
             ELSE raised' = raised /\ pc' = "shape_file"
  /\ UNCHANGED <<envVars, setupVars, cfg, peft_model_cfg, restoreVars, dbgVars,
                 response, outfile, stdout>>

\* lines 116-119
PopShapeFile ==
  /\ script = "retro" /\ pc = "shape_file"
  /\ frozen_model_cfg' = IF "shape_file" \in DOMAIN frozen_model_cfg
                         THEN PopKey(frozen_model_cfg, "shape_file")
                         ELSE frozen_model_cfg
  /\ stdout' = Append(stdout, [printed |-> "frozen_model_cfg",
                               config |-> frozen_model_cfg'])
  /\ pc' = "fit"
  /\ UNCHANGED <<envVars, setupVars, cfg, peft_model_cfg, restoreVars, dbgVars,
                 response, outfile, raised>>

\* lines 120-121
RetroFit ==
  /\ script = "retro" /\ pc = "fit"
  /\ model' = [class |-> "MegatronFusedRetrievalLoraModel",
               cfg |-> frozen_model_cfg, trainer |-> trainer, fitted |-> TRUE]
  /\ pc' = "done"
  /\ UNCHANGED <<envVars, setupVars, cfgVars, save_restore_connector, request_dl,
                 dbgVars, outVars>>

NextRetro ==
  \/ RetroBuildPlugins
  \/ RetroBuildTrainer
  \/ SetModelPrecision
  \/ RetroRestore
  \/ MergeRetro
  \/ PopShapeFile
  \/ RetroFit

-----------------------------------------------------------------------------
(* The specifications *)

\* Both scripts, over every configuration source and override.
Init == InitEval \/ InitRetro
Next == NextEval \/ NextRetro
Spec == Init /\ [][Next]_vars

MaxTestSet == 3

\* The runtime configs of the output stage: one configuration source, every
\* output mode, batches of one or two records.
OutputConfigs ==
  { EvalCfg("bf16", PeftNemo, NoneText, NoneText, TestDs(TRUE, 30, g), FALSE,
            None, <<None, None>>, Inference(path, logprob, verbose)) :
      g \in {1, 2}, path \in {NoneText, OutPath}, logprob \in BOOLEAN,
      verbose \in BOOLEAN }

InitOutput ==
  /\ script = "eval"
  /\ hydra_cfg \in OutputConfigs
  /\ test_set \in 0..MaxTestSet
  /\ InitCommon

\* The eval script over every response and output mode.
SpecOutput == InitOutput /\ [][NextEval]_vars

-----------------------------------------------------------------------------
(* Properties of the configuration pipeline of megatron_gpt_peft_eval.py *)

\* The blocks of the eval script up to and including the merge.
EvalBeforeSource == {"plugins", "trainer", "config_source"}
EvalBeforeMerged == EvalBeforeSource \cup {"merge"}

\* The merge of the eval script has run.
EvalMerged == script = "eval" /\ pc \notin EvalBeforeMerged \cup {"failed"}

\* C1: with a non-empty peft.restore_from_path, a path ending in ".nemo" makes
\* the adapter config the one packaged at that path; any other path with
\* peft.restore_from_hparams_path set makes it the cfg entry of that hparams
\* file; and any other path with no hparams path ends the run with a
\* RuntimeError at the choice of the source, with no model restored, no
\* generate call made, nothing predicted, written or printed.
C1_ConfigSource ==
  script = "eval" =>
    LET p == hydra_cfg.model.peft.restore_from_path
        hp == hydra_cfg.model.peft.restore_from_hparams_path
        packaged == EndsWith(p, DotNemo)
    IN Truthy(p) =>
         /\ (packaged /\ pc = "merge") => peft_model_cfg = Artifact(p)
         /\ (~packaged /\ Truthy(hp) /\ pc = "merge")
               => peft_model_cfg = Artifact(hp).cfg
         /\ (~packaged /\ ~Truthy(hp)) =>
               /\ pc \notin EvalBeforeSource
                    => (pc = "failed" /\ raised = "RuntimeError")
               /\ model = << >> /\ gen_calls = << >> /\ response = << >>
               /\ outfile = NoFile /\ stdout = << >>

C1_Witness ==
  /\ script = "eval" /\ pc = "failed" /\ raised = "RuntimeError"
  /\ hydra_cfg.model.peft.restore_from_path = NemoDir
  /\ hydra_cfg.model.peft.restore_from_hparams_path = NoneText

\* The persisted config the eval script loads for the runtime config it was
\* called with.
Loaded == PeftConfigSource(hydra_cfg).cfg

\* C2 (as claimed): in the merged config handed to model restore, precision,
\* the test data spec, both activation-checkpointing keys, a set
\* seq_len_interpolation_factor and use_flash_attention all hold the runtime
\* config's value.
C2_RuntimeOverridesAll ==
  (script = "eval" /\ model # << >>) =>
    LET m == model.override_config_path
        r == hydra_cfg
    IN /\ m.precision = r.trainer.precision
       /\ m.data.test_ds = r.model.data.test_ds
       /\ m.activations_checkpoint_granularity = r.model.activations_checkpoint_granularity
       /\ m.activations_checkpoint_method = r.model.activations_checkpoint_method
       /\ r.model.seq_len_interpolation_factor # None
            => m.seq_len_interpolation_factor = r.model.seq_len_interpolation_factor
       /\ "use_flash_attention" \in DOMAIN m
       /\ m.use_flash_attention = r.model.use_flash_attention

\* C2 (amended): in the merged config handed to model restore, precision, the
\* test data spec and a set seq_len_interpolation_factor hold the runtime
\* value; both activation-checkpointing keys are None whatever the runtime
\* config sets; use_flash_attention holds the runtime value when the persisted
\* config has it true and is otherwise left as persisted (false or absent).
C2_RuntimeOverrides ==
  (script = "eval" /\ model # << >>) =>
    LET m == model.override_config_path
        r == hydra_cfg
    IN /\ m.precision = r.trainer.precision
       /\ m.data.test_ds = r.model.data.test_ds
       /\ r.model.seq_len_interpolation_factor # None
            => m.seq_len_interpolation_factor = r.model.seq_len_interpolation_factor
       /\ m.activations_checkpoint_granularity = None
       /\ m.activations_checkpoint_method = None
       /\ IF "use_flash_attention" \in DOMAIN Loaded /\ Loaded.use_flash_attention
          THEN m.use_flash_attention = r.model.use_flash_attention
          ELSE /\ ("use_flash_attention" \in DOMAIN m)
                    = ("use_flash_attention" \in DOMAIN Loaded)
               /\ "use_flash_attention" \in DOMAIN m
                    => m.use_flash_attention = Loaded.use_flash_attention

C2_Witness ==
  /\ script = "eval" /\ model # << >>
  /\ hydra_cfg.model.activations_checkpoint_granularity = "selective"
  /\ hydra_cfg.model.use_flash_attention
  /\ "use_flash_attention" \notin DOMAIN model.override_config_path
  /\ model.override_config_path.precision = "bf16"

\* C3: from the end of the back-propagation on, inference.add_BOS and
\* inference.tokens_to_generate of the runtime config equal add_bos and
\* tokens_to_generate of the merged test data spec, and the inference config
\* the model is given holds these values.
C3_BackPropagated ==
  (EvalMerged /\ pc # "back_propagate") =>
    /\ cfg.inference.add_BOS = peft_model_cfg.data.test_ds.add_bos
    /\ cfg.inference.tokens_to_generate = peft_model_cfg.data.test_ds.tokens_to_generate
    /\ (model # << >> /\ model.inference_config # << >>) =>
         /\ model.inference_config.add_BOS = peft_model_cfg.data.test_ds.add_bos
         /\ model.inference_config.tokens_to_generate
              = peft_model_cfg.data.test_ds.tokens_to_generate

C3_Witness ==
  /\ script = "eval" /\ model # << >> /\ model.inference_config # << >>
  /\ model.inference_config.add_BOS /\ ~hydra_cfg.inference.add_BOS
  /\ model.inference_config.tokens_to_generate = 30
  /\ hydra_cfg.inference.tokens_to_generate = 0

\* A weight-file name was specified.
NameGiven(cn) == cn # NoneText /\ cn # << >>

\* C6: once the connector is built, a ".nemo" adapter path has made it a PEFT
\* connector with that path as the packaged artifact and no checkpoint path;
\* any other non-empty adapter path a PEFT connector with that path as the
\* checkpoint directory, no packaged artifact, and the weight-file name
\* peft.restore_from_ckpt_name, or "model_weights.ckpt" when none is given;
\* an empty or null adapter path the plain connector.
C6_AdapterWeightSource ==
  (script = "eval" /\ save_restore_connector # << >>) =>
    LET p == hydra_cfg.model.peft.restore_from_path
        cn == hydra_cfg.model.peft.restore_from_ckpt_name
        k == save_restore_connector
    IN /\ (Truthy(p) /\ EndsWith(p, DotNemo)) =>
            /\ k.class = "PEFTSaveRestoreConnector"
            /\ k.args.peft_model_nemo_path = p
            /\ k.args.peft_model_ckpt_path = NoneText
       /\ (Truthy(p) /\ ~EndsWith(p, DotNemo)) =>
            /\ k.class = "PEFTSaveRestoreConnector"
            /\ k.args.peft_model_nemo_path = NoneText
            /\ k.args.peft_model_ckpt_path = p
            /\ k.args.peft_model_ckpt_name = (IF NameGiven(cn) THEN cn ELSE DefaultCkptName)
       /\ ~Truthy(p) =>
            /\ k.class = "NLPSaveRestoreConnector"
            /\ k.args = << >>

C6_Witness ==
  /\ script = "eval" /\ model # << >>
  /\ hydra_cfg.model.peft.restore_from_path = NemoDir
  /\ hydra_cfg.model.peft.restore_from_ckpt_name = NoneText
  /\ model.save_restore_connector.args.peft_model_ckpt_path = NemoDir
  /\ model.save_restore_connector.args.peft_model_ckpt_name = DefaultCkptName

\* C7: with peft.restore_from_path empty or null the run raises nothing, the
\* config handed to model restore is the base model's persisted config with
\* the runtime overrides applied and holds no peft entry, and the model is
\* restored with the plain NLPSaveRestoreConnector, given no adapter path.
C7_NoAdapter ==
  (script = "eval" /\ ~Truthy(hydra_cfg.model.peft.restore_from_path)) =>
    /\ pc # "failed" /\ raised = None
    /\ pc = "merge" => peft_model_cfg = Artifact(hydra_cfg.model.restore_from_path)
    /\ model # << >> =>
         /\ model.override_config_path = MergeEvalConfig(BaseModelCfg, hydra_cfg)
         /\ "peft" \notin DOMAIN model.override_config_path
         /\ model.save_restore_connector.class = "NLPSaveRestoreConnector"
         /\ model.save_restore_connector.args = << >>

C7_Witness ==
  /\ script = "eval" /\ pc = "done"
  /\ hydra_cfg.model.peft.restore_from_path = NoneText
  /\ hydra_cfg.model.peft.restore_from_hparams_path = HparamsYaml
  /\ model.save_restore_connector.class = "NLPSaveRestoreConnector"

-----------------------------------------------------------------------------
(* Frame of the merge, in both scripts *)

\* The runtime config of the eval script but for the two back-propagated
\* fields.
SameButBackPropagated(c, h) ==
  c = [h EXCEPT !.inference.add_BOS = c.inference.add_BOS,
                !.inference.tokens_to_generate = c.inference.tokens_to_generate]

\* The merge of the retro script has run (to its end or to the error).
RetroMerged == script = "retro" /\ pc \in {"shape_file", "fit", "done", "failed"}

\* C8 (as claimed): after the merge, in both scripts, the persisted config
\* object that was loaded holds the values it was loaded with, and the runtime
\* config holds the values it was composed with, but for inference.add_BOS and
\* inference.tokens_to_generate.
C8_MergeLeavesInputsUnchanged ==
  /\ EvalMerged =>
       /\ peft_model_cfg = Loaded
       /\ SameButBackPropagated(cfg, hydra_cfg)
  /\ RetroMerged =>
       /\ frozen_model_cfg = RetroRestoreConfig(hydra_cfg.restore_from_path)
       /\ cfg = hydra_cfg

\* C8 (amended): the merge writes into its inputs.  In the eval script the
\* runtime config changes in inference.add_BOS and inference.tokens_to_generate
\* only, while the loaded persisted config object is itself overwritten with
\* the runtime overrides and is the config handed to model restore.  In the
\* retro script the runtime config gains model.precision = trainer.precision
\* and is otherwise as composed, while the restored config object is itself
\* overwritten with the runtime values, loses shape_file, and is the config the
\* model is built from.
C8_MergeInPlace ==
  /\ script = "eval" => SameButBackPropagated(cfg, hydra_cfg)
  /\ EvalMerged =>
       /\ peft_model_cfg = MergeEvalConfig(Loaded, hydra_cfg)
       /\ peft_model_cfg.precision = hydra_cfg.trainer.precision
       /\ peft_model_cfg.data.test_ds = hydra_cfg.model.data.test_ds
       /\ model # << >> => model.override_config_path = peft_model_cfg
  /\ RetroMerged =>
       /\ cfg = WithModelPrecision(hydra_cfg)
       /\ pc # "failed" =>
            /\ \A k \in DOMAIN hydra_cfg.model \cap
                        {RetroCopiedKeys[i] : i \in DOMAIN RetroCopiedKeys} :
                 frozen_model_cfg[k] = hydra_cfg.model[k]
            /\ frozen_model_cfg.precision = hydra_cfg.trainer.precision
            /\ frozen_model_cfg.task_templates = hydra_cfg.model.task_templates
       /\ pc \in {"fit", "done"} => "shape_file" \notin DOMAIN frozen_model_cfg
       /\ pc = "done" => model.cfg = frozen_model_cfg

C8_Witness ==
  /\ script = "eval" /\ pc = "done"
  /\ peft_model_cfg # Loaded
  /\ Loaded.precision # hydra_cfg.trainer.precision
  /\ model.override_config_path = peft_model_cfg
  /\ cfg # hydra_cfg

\* C9: after the merge of the retro script, each of tokenizer, data and
\* adapter_tuning holds in the effective config the runtime config's value
\* when the runtime config provides the key, and the restored base-model
\* config's value when it does not; the run has not failed on it.
C9_RetroRuntimeOrBase ==
  RetroMerged =>
    /\ pc # "failed"
    /\ \A k \in {"tokenizer", "data", "adapter_tuning"} :
         frozen_model_cfg[k] = IF k \in DOMAIN hydra_cfg.model
                               THEN hydra_cfg.model[k]
                               ELSE RetroBaseCfg[k]

C9_Witness ==
  /\ script = "retro" /\ pc = "done"
  /\ "tokenizer" \notin DOMAIN hydra_cfg.model
  /\ RetroBaseCfg.tokenizer = "base_tokenizer"
  /\ model.cfg.tokenizer = None

-----------------------------------------------------------------------------
(* The inline request block of megatron_gpt_peft_eval.py *)

\* The generate calls that were given batch b.
ConsumersOf(b) == {g \in 1..Len(gen_calls) : gen_calls[g].batch = b}

\* C10: once the inline request block is over, each collated batch has been
\* consumed by exactly one generate call, and each generate call consumed a
\* batch collated from the example record built for its request.
C10_OneBatchOneCall ==
  (script = "eval" /\ pc \in {"predict", "write", "done"}) =>
    /\ \A b \in 1..Len(batches) : Cardinality(ConsumersOf(b)) = 1
    /\ \A g \in 1..Len(gen_calls) :
         batches[gen_calls[g].batch].records = <<gen_calls[g].example>>

C10_Witness ==
  /\ script = "eval" /\ pc = "predict"
  /\ Len(batches) = 2 /\ Len(examples) = 6 /\ Len(gen_calls) = 11
  /\ ConsumersOf(1) = {}
  /\ Cardinality(ConsumersOf(2)) = 11
  /\ batches[2].records = <<1>>
  /\ gen_calls[11].example = 6

-----------------------------------------------------------------------------
(* Reading the output file back: a strict JSON reader for objects of str
   values, as json.loads reads them *)

Whitespace == {" ", "\n"}

RECURSIVE SkipWs(_, _)
\* The first position from i on that holds no whitespace.
SkipWs(t, i) == IF i <= Len(t) /\ t[i] \in Whitespace THEN SkipWs(t, i + 1) ELSE i

ParseError == [ok |-> FALSE, value |-> << >>, next |-> 0]

RECURSIVE ParseChars(_, _, _)
\* The characters of a string literal from position i, just after the opening
\* quote, to the closing quote.  A raw line break inside the literal and an
\* unknown escape are errors.
ParseChars(t, i, acc) ==
  IF i > Len(t) THEN ParseError
  ELSE IF t[i] = "\"" THEN [ok |-> TRUE, value |-> acc, next |-> i + 1]
  ELSE IF t[i] = "\n" THEN ParseError
  ELSE IF t[i] = "\\"
       THEN IF i + 1 > Len(t) THEN ParseError
            ELSE IF t[i + 1] = "\"" THEN ParseChars(t, i + 2, Append(acc, "\""))
            ELSE IF t[i + 1] = "\\" THEN ParseChars(t, i + 2, Append(acc, "\\"))
            ELSE IF t[i + 1] = "n" THEN ParseChars(t, i + 2, Append(acc, "\n"))
            ELSE ParseError
  ELSE ParseChars(t, i + 1, Append(acc, t[i]))

\* The string literal at position i.
ParseString(t, i) ==
  IF i <= Len(t) /\ t[i] = "\"" THEN ParseChars(t, i + 1, << >>) ELSE ParseError

RECURSIVE ParseMembers(_, _, _)
\* The members of an object from position i, where a key starts, to the
\* closing brace.
ParseMembers(t, i, acc) ==
  LET k == ParseString(t, i)
      colon == SkipWs(t, k.next)
      v == ParseString(t, SkipWs(t, colon + 1))
      e == SkipWs(t, v.next)
  IN IF ~k.ok \/ colon > Len(t) THEN ParseError
     ELSE IF t[colon] # ":" THEN ParseError
     ELSE IF ~v.ok \/ e > Len(t) THEN ParseError
     ELSE LET items == Append(acc, [key |-> k.value, value |-> v.value])
          IN IF t[e] = "}" THEN [ok |-> TRUE, value |-> items, next |-> e + 1]
             ELSE IF t[e] = "," THEN ParseMembers(t, SkipWs(t, e + 1), items)
             ELSE ParseError

\* The object at position i: its items in the order written.
ParseObject(t, i) ==
  IF i > Len(t) THEN ParseError
  ELSE IF t[i] # "{" THEN ParseError
  ELSE LET j == SkipWs(t, i + 1)
       IN IF j > Len(t) THEN ParseError
          ELSE IF t[j] = "}" THEN [ok |-> TRUE, value |-> << >>, next |-> j + 1]
          ELSE ParseMembers(t, j, << >>)

\* json.loads(t) of a text holding one object.
JsonLoads(t) ==
  LET o == ParseObject(t, SkipWs(t, 1))
  IN IF o.ok /\ SkipWs(t, o.next) > Len(t) THEN o ELSE ParseError

RECURSIVE ParseStream(_, _, _)
\* The objects of a text that holds objects one after the other.
ParseStream(t, i, acc) ==
  LET j == SkipWs(t, i)
  IN IF j > Len(t) THEN [ok |-> TRUE, value |-> acc, next |-> j]
     ELSE LET o == ParseObject(t, j)
          IN IF o.ok THEN ParseStream(t, o.next, Append(acc, o.value))
             ELSE ParseError

\* The positions just after the lines of a text: those of its line breaks,
\* and the one after its last character when the last line has no line break.
LineEnds(t) ==
  {i \in 1..Len(t) : t[i] = "\n"}
    \cup (IF Len(t) > 0 /\ t[Len(t)] # "\n" THEN {Len(t) + 1} ELSE {})

\* The lines of a text, without their line breaks.
Lines(t) ==
  LET ends == LineEnds(t)
      nth(k) == CHOOSE e \in ends : Cardinality({x \in ends : x <= e}) = k
      start(k) == IF k = 1 THEN 1 ELSE nth(k - 1) + 1
  IN [k \in 1..Cardinality(ends) |-> SubSeq(t, start(k), nth(k) - 1)]

\* The sentences of a response, batch after batch.
AllSentences(resp) == Concat([b \in 1..Len(resp) |-> resp[b].sentences])

\* The record holds the sentence s under the key 'sentence'.
HasSentence(items, s) ==
  \E m \in DOMAIN items : items[m].key = KeySentence /\ items[m].value = s

-----------------------------------------------------------------------------
(* Properties of the output of megatron_gpt_peft_eval.py *)

\* C4: at the end of a run with outfile_path set, the file holds exactly one
\* record per sentence of the response, in batch order and within a batch in
\* sentence order, whatever compute_logprob and verbose are; with outfile_path
\* not set no file is written and the response is printed.
C4_EverySentenceOneRecord ==
  (script = "eval" /\ pc = "done") =>
    IF cfg.inference.outfile_path # NoneText
    THEN LET recs == ParseStream(outfile, 1, << >>)
             sents == AllSentences(response)
         IN /\ outfile # NoFile
            /\ recs.ok
            /\ Len(recs.value) = Len(sents)
            /\ \A i \in 1..Len(sents) : HasSentence(recs.value[i], sents[i])
    ELSE /\ outfile = NoFile
         /\ \E i \in DOMAIN stdout :
              stdout[i] = [printed |-> "response", value |-> response]

C4_Witness ==
  /\ script = "eval" /\ pc = "done"
  /\ cfg.inference.outfile_path = OutPath
  /\ cfg.inference.compute_logprob /\ ~cfg.inference.verbose
  /\ Len(AllSentences(response)) = 3
  /\ outfile = << >>
  /\ \E i \in DOMAIN stdout : stdout[i].printed = "predictions saved to"

\* The text every line of the minimal mode starts with.
MinimalPrefix == <<"{", "\"">> \o KeySentence \o <<"\"", ":", " ", "\"">>

\* C5: at the end of a run with compute_logprob False and outfile_path set,
\* the file has one line per sentence of the response, in order, and each line
\* is a JSON object whose only key is 'sentence' and whose value is that
\* sentence, written as {"sentence": "<text>"}.
C5_MinimalLines ==
  (/\ script = "eval" /\ pc = "done"
   /\ ~cfg.inference.compute_logprob
   /\ cfg.inference.outfile_path # NoneText) =>
    LET lines == Lines(outfile)
        sents == AllSentences(response)
    IN /\ Len(lines) = Len(sents)
       /\ \A i \in 1..Len(lines) :
            /\ JsonLoads(lines[i]).ok
            /\ JsonLoads(lines[i]).value = <<[key |-> KeySentence, value |-> sents[i]]>>
            /\ Len(lines[i]) >= Len(MinimalPrefix) + 2
            /\ SubSeq(lines[i], 1, Len(MinimalPrefix)) = MinimalPrefix
            /\ SubSeq(lines[i], Len(lines[i]) - 1, Len(lines[i])) = <<"\"", "}">>

C5_Witness ==
  /\ script = "eval" /\ pc = "done"
  /\ ~cfg.inference.compute_logprob
  /\ cfg.inference.outfile_path = OutPath
  /\ Len(response) >= 2
  /\ Len(response[1].sentences) = 2
  /\ response[1].sentences[2] = <<"\"", "\n">>
  /\ response[2].sentences[1] = <<"\\">>
  /\ Len(Lines(outfile)) = 3

-----------------------------------------------------------------------------
(* Layout of the records in the output file *)

\* The tokens and the log-probabilities of a response, sentence after sentence.
AllTokens(resp) == Concat([b \in 1..Len(resp) |-> resp[b].tokens])
AllLogprobs(resp) == Concat([b \in 1..Len(resp) |-> resp[b].logprob])

IsDigit(c) == \E d \in DOMAIN Digits : Digits[d] = c
DigitValue(c) == (CHOOSE d \in DOMAIN Digits : Digits[d] = c) - 1

\* The text without its sign.
Unsigned(txt) == IF txt # << >> /\ Head(txt) = "-" THEN Tail(txt) ELSE txt

\* The text is a number written with exactly 4 digits after the point.
IsFixed4(txt) ==
  LET u == Unsigned(txt)
      n == Len(u)
  IN /\ n >= 6
     /\ u[n - 4] = "."
     /\ \A i \in 1..n : i # n - 4 => IsDigit(u[i])

RECURSIVE DigitsValue(_)
DigitsValue(ds) ==
  IF ds = << >> THEN 0
  ELSE 10 * DigitsValue(SubSeq(ds, 1, Len(ds) - 1)) + DigitValue(ds[Len(ds)])

\* The number the text stands for, in units of 10^-4.
Fixed4Value(txt) ==
  LET u == Unsigned(txt)
      n == Len(u)
      v == DigitsValue(SubSeq(u, 1, n - 5) \o SubSeq(u, n - 3, n))
  IN IF txt # u THEN 0 - v ELSE v

\* The text is the log-probability l (in units of 10^-5) to 4 decimals.
IsTo4Decimals(txt, l) ==
  /\ IsFixed4(txt)
  /\ 10 * Fixed4Value(txt) - l \in (0 - 5)..5

\* The tokens_with_logprobs value of a record: each token followed by a space
\* and a text, the pairs separated by ", ".
Paired(t, texts) ==
  Join(<<",", " ">>, [j \in 1..Len(t) |-> t[j] \o <<" ">> \o texts[j]])

\* The record of the verbose mode for sentence i of the response.
VerboseRecord(resp, i) ==
  << [key |-> KeySentence, value |-> AllSentences(resp)[i]],
     [key |-> KeyTokensWithLogprobs,
      value |-> Paired(AllTokens(resp)[i],
                       [j \in 1..Len(AllLogprobs(resp)[i]) |->
                          Format4f(AllLogprobs(resp)[i][j])])] >>

\* The run is over and has written records in the minimal or the verbose mode.
WroteMinimal ==
  /\ script = "eval" /\ pc = "done"
  /\ cfg.inference.outfile_path # NoneText
  /\ ~cfg.inference.compute_logprob

WroteVerbose ==
  /\ script = "eval" /\ pc = "done"
  /\ cfg.inference.outfile_path # NoneText
  /\ cfg.inference.compute_logprob /\ Get(cfg.inference, "verbose", FALSE)

\* C11 (as claimed): in the minimal mode and in the verbose mode with
\* log-probabilities, the file has one line per record, each line one JSON
\* object; in the verbose mode the object has exactly the keys 'sentence' and
\* 'tokens_with_logprobs', each token paired with its log-probability to 4
\* decimals.
C11_OneRecordPerLine ==
  (WroteMinimal \/ WroteVerbose) =>
    LET lines == Lines(outfile)
        sents == AllSentences(response)
    IN /\ Len(lines) = Len(sents)
       /\ \A i \in 1..Len(lines) :
            /\ JsonLoads(lines[i]).ok
            /\ WroteVerbose => JsonLoads(lines[i]).value = VerboseRecord(response, i)
            /\ WroteMinimal => HasSentence(JsonLoads(lines[i]).value, sents[i])

\* C11 (amended): in the minimal mode the file has one line per record, each
\* line one JSON object.  In the verbose mode with log-probabilities each
\* record is one JSON object laid out over four lines: an opening brace, the
\* 'sentence' member and the 'tokens_with_logprobs' member each indented by two
\* spaces, and a closing brace; the object has exactly these two keys, and
\* each token is paired with its log-probability to 4 decimals.
C11_RecordLayout ==
  LET lines == Lines(outfile)
      sents == AllSentences(response)
      recs == ParseStream(outfile, 1, << >>)
  IN /\ WroteMinimal =>
          /\ Len(lines) = Len(sents)
          /\ \A i \in 1..Len(lines) :
               /\ JsonLoads(lines[i]).ok
               /\ Len(JsonLoads(lines[i]).value) = 1
     /\ WroteVerbose =>
          /\ recs.ok
          /\ Len(recs.value) = Len(sents)
          /\ Len(lines) = 4 * Len(sents)
          /\ \A i \in 1..Len(sents) :
               /\ recs.value[i] = VerboseRecord(response, i)
               /\ lines[4 * i - 3] = <<"{">>
               /\ SubSeq(lines[4 * i - 2], 1, 3) = <<" ", " ", "\"">>
               /\ SubSeq(lines[4 * i - 1], 1, 3) = <<" ", " ", "\"">>
               /\ lines[4 * i] = <<"}">>
               /\ JsonLoads(lines[4 * i - 3] \o lines[4 * i - 2]
                            \o lines[4 * i - 1] \o lines[4 * i]).value
                    = recs.value[i]
               /\ Len(AllTokens(response)[i]) = Len(AllLogprobs(response)[i])
               /\ \A j \in 1..Len(AllLogprobs(response)[i]) :
                    IsTo4Decimals(Format4f(AllLogprobs(response)[i][j]),
                                  AllLogprobs(response)[i][j])

C11_Witness ==
  /\ WroteVerbose
  /\ Len(response) = 2
  /\ response[1].sentences = << <<"\"", "\n">>, <<"a", "b">> >>
  /\ response[2].sentences = << <<"\\">> >>
  /\ Len(Lines(outfile)) = 12
  /\ Lines(outfile)[7] =
       <<" ", " ", "\"">> \o KeyTokensWithLogprobs
       \o <<"\"", ":", " ", "\"", "a", " ", "-", "0", ".", "0", "3", "1", "2",
            ",", " ", "b", " ", "-", "0", ".", "0", "9", "3", "8", "\"">>

-----------------------------------------------------------------------------
(* The adapter weight payload of the inline request block *)

\* The blocks of the eval script after the load of the payload.
EvalAfterLoad == {"inline_request", "predict", "write", "done"}

\* Example record i was built and its payload slot is still to be filled: it
\* is the record the block has just processed and the next statement attaches
\* the payload to it.
AttachPending(i) == i = processed_example /\ AtOp("attach")

\* The payload is loaded at most once, and once the load is done the handle
\* model_weights names that payload; every example record built holds that
\* handle, and no other entry, under slot "0" from its attach statement on,
\* and every collated batch holds it for each of its records.
PayloadShared ==
  script = "eval" =>
    /\ Len(payloads) <= 1
    /\ pc \in EvalAfterLoad =>
         /\ Len(payloads) = 1
         /\ model_weights = 1
         /\ payloads[model_weights] = LoadedPayload(WeightsFile)
    /\ pc \notin EvalAfterLoad => examples = << >>
    /\ \A i \in 1..Len(examples) :
         IF AttachPending(i)
         THEN examples[i].inference_peft_weights = << >>
         ELSE /\ DOMAIN examples[i].inference_peft_weights = {"0"}
              /\ examples[i].inference_peft_weights["0"] = model_weights
    /\ \A b \in 1..Len(batches) :
         /\ DOMAIN batches[b].inference_peft_weights = {"0"}
         /\ \A k \in DOMAIN batches[b].records :
              batches[b].inference_peft_weights["0"][k] = model_weights

\* From the load on, a step neither rebinds the handle nor loads, copies or
\* writes to a payload.
PayloadKept ==
  (script = "eval" /\ pc \in EvalAfterLoad) =>
    /\ model_weights' = model_weights
    /\ payloads' = payloads

\* C12: the adapter weight payload is loaded once per run of the eval script;
\* every example record that is built has that payload attached, by its
\* handle, under slot "0"; and between the load and the last generate call the
\* handle is not rebound and the payload is not written to.
C12_OnePayloadShared == []PayloadShared /\ [][PayloadKept]_vars

C12_Witness ==
  /\ script = "eval" /\ pc = "predict"
  /\ Len(payloads) = 1 /\ model_weights = 1
  /\ Len(examples) = 6 /\ Len(gen_calls) = 11
  /\ \A i \in 1..6 : examples[i].inference_peft_weights["0"] = 1
  /\ batches[gen_calls[11].batch].inference_peft_weights["0"] = <<1>>

-----------------------------------------------------------------------------
(* Precision of the Trainer and of the effective model config, both scripts *)

\* The model was built: restored in the eval script, constructed in the retro
\* script.
ModelBuilt == model # << >>

\* The effective model config the model was built from.
EffectiveCfg == IF script = "eval" THEN model.override_config_path ELSE model.cfg

\* The precision plugins main() computes from the runtime trainer config.
ComputedPlugins ==
  PrecisionPlugins(hydra_cfg, Get(hydra_cfg.model, "megatron_amp_O2", FALSE),
                   script = "retro"
                     /\ hydra_cfg.model.optim.name = "distributed_fused_adam")

\* The precision of the effective config is the Trainer's, and the Trainer
\* uses the computed plugins.
PrecisionAgrees ==
  /\ EffectiveCfg.precision = model.trainer.precision
  /\ plugins = ComputedPlugins
  /\ model.trainer.plugins = plugins

\* C13: in both scripts, once the model is built, the precision recorded in
\* the effective model config equals the precision the Trainer was constructed
\* with, and the Trainer holds the precision plugins computed from the runtime
\* trainer config.
C13_PrecisionAgrees == ModelBuilt => PrecisionAgrees

C13_Witness ==
  /\ script = "eval" /\ pc = "done"
  /\ hydra_cfg.trainer.precision = "bf16"
  /\ model.override_config_path.precision = "bf16"
  /\ model.trainer.precision = "16"
  /\ Len(plugins) = 1 /\ plugins[1].precision = "bf16"
  /\ model.trainer.plugins = << >>
=============================================================================
